---- MODULE Spec2Model ----
(***************************************************************************)
(* Model of metal/mmtl/payload.py (class Payload) and of                   *)
(* metal/mmtl/slicing/search.py (function main, the search driver).        *)
(*                                                                         *)
(* Two specifications share the module: SpecPayload drives the Payload     *)
(* mutators, SpecDriver runs main(args) statement group by statement       *)
(* group.  Each leaves the other component's variables untouched.          *)
(***************************************************************************)
EXTENDS Integers, Sequences, FiniteSets, TLC

VARIABLES
    labels,           \* self.data_loader.dataset.labels : key -> label array
    labels_to_tasks,  \* self.labels_to_tasks : label-set name -> task name / None
    last,             \* history: the last Payload call, its arguments and outcome
    rt,               \* history: an add_label_set followed at once by remove_label_set
    pc,               \* search.main: position in the function
    args,             \* search.main: parsed command line (args.*) and the config file
    gen,              \* search.main: candidates the tuner's generator has yielded so far
    search_conf,      \* search.main: loop variable of line 27
    arg_list,         \* search.main: arg_list of the trial being prepared or run
    metrics_path,     \* search.main: metrics_path returned by launch
    invocations,      \* history: one record per call of launch(launch_args)
    config_to_metrics,\* search.main: insertion-ordered dict, as a sequence of entries
    scan,             \* search.main: index of the entry the loop of line 59 is at
    best_path_config, \* search.main: best_path_config
    best_metric,      \* search.main: best_metric
    report,           \* the report file written at lines 84-89
    err               \* the exception that ended main, if any

pvars == <<labels, labels_to_tasks, last, rt>>
dvars == <<pc, args, gen, search_conf, arg_list, metrics_path, invocations,
           config_to_metrics,
           scan, best_path_config, best_metric, report, err>>
vars == <<labels, labels_to_tasks, last, rt, pc, args, gen, search_conf,
          arg_list, metrics_path, invocations, config_to_metrics, scan, best_path_config,
          best_metric, report, err>>

(***************************************************************************)
(* Small input sets and bounds                                             *)
(***************************************************************************)
\* Label-set names and task names are plain str keys, so a name can be both.
\* "labels" is the label-set name from_tensors registers.
Names == {"labels", "a", "b"}
TaskNames == {"a", "b"}
\* Python's None as a task name.
None == "None"
\* Task names (or None) a caller of remap_labelsets retargets to.
RemapTasks == TaskNames \cup {None}
\* Largest number of keys of the mapping handed to remap_labelsets.
MaxRemapKeys == 1

\* A dict as a function on its key set.
EmptyDict == [k \in {} |-> None]
DictSet(k, v, d) == [x \in DOMAIN d \cup {k} |-> IF x = k THEN v ELSE d[x]]
DictDel(k, d) == [x \in DOMAIN d \ {k} |-> d[x]]

(***************************************************************************)
(* Payload                                                                 *)
(***************************************************************************)
\* A label tensor: the label set it was built for and its rank.
Tensor(owner, dim) == [owner |-> owner, dim |-> dim]

\* The label_list argument: None, a torch.Tensor of rank 1 or 2, or an
\* object that is not a torch.Tensor.
LabelListArgs ==
    {[kind |-> "none", dim |-> 0], [kind |-> "other", dim |-> 0]}
    \cup [kind : {"tensor"}, dim : 1..2]

\* The label_fn argument: None, a non-callable, or a function whose
\* per-item result has rank 0 or 1 (torch.stack adds one dimension).
LabelFnArgs ==
    {[kind |-> "none", dim |-> 0], [kind |-> "other", dim |-> 0]}
    \cup [kind : {"fn"}, dim : 0..1]

\* Key under which MmtlDataset(X, Y) files the single tensor Y: the label-set
\* name that from_tensors registers for it.
DatasetKey == "labels"

\* Payload.from_tensors
FromTensors(task_name) ==
    /\ labels = DictSet(DatasetKey, Tensor("labels", 2), EmptyDict)
    /\ labels_to_tasks = DictSet("labels", task_name, EmptyDict)
    /\ last = [op |-> "from_tensors"]
    /\ rt = [phase |-> "idle"]

\* Lines 60-74 of add_label_set: the error raised, or "ok".
AddOutcome(label_list, label_fn) ==
    IF label_fn.kind # "none"
    THEN IF label_list.kind # "none" THEN "AssertionError"
         ELSE IF label_fn.kind # "fn" THEN "AssertionError"
         ELSE IF label_fn.dim + 1 < 2 THEN "Exception"
         ELSE "ok"
    ELSE IF label_list.kind # "none"
    THEN IF label_list.kind # "tensor" THEN "AssertionError"
         ELSE IF label_list.dim < 2 THEN "Exception"
         ELSE "ok"
    ELSE "ValueError"

\* Lines 60-69 of add_label_set: new_labels.
NewLabels(label_name, label_list, label_fn) ==
    IF label_fn.kind # "none"
    THEN Tensor(label_name, label_fn.dim + 1)
    ELSE Tensor(label_name, label_list.dim)

\* Line 76 of add_label_set: the key of the dataset's label mapping written.
AddKey(task_name, label_name) == task_name

\* Line 88 of remove_label_set: the key popped from the dataset's label mapping.
PopKey(label_name) == label_name

\* History of add-then-remove, after a call that is not part of one.
RtIdle == [phase |-> "idle"]

AddLabelSet(task_name, label_name, label_list, label_fn) ==
    LET out == AddOutcome(label_list, label_fn)
        new_labels == NewLabels(label_name, label_list, label_fn)
    IN  /\ IF out = "ok"
           THEN /\ labels' = DictSet(AddKey(task_name, label_name), new_labels, labels)
                /\ labels_to_tasks' = DictSet(label_name, task_name, labels_to_tasks)
                /\ rt' = IF /\ label_name \notin DOMAIN labels_to_tasks
                            /\ task_name \notin DOMAIN labels
                         THEN [phase |-> "added", label_name |-> label_name,
                               task_name |-> task_name, labels |-> labels,
                               labels_to_tasks |-> labels_to_tasks]
                         ELSE RtIdle
           ELSE /\ UNCHANGED <<labels, labels_to_tasks>>
                /\ rt' = RtIdle
        /\ last' = [op |-> "add_label_set", err |-> out]
        /\ UNCHANGED dvars

RemoveLabelSet(label_name) ==
    LET key == PopKey(label_name)
        out == IF key \notin DOMAIN labels THEN "KeyError:labels"
               ELSE IF label_name \notin DOMAIN labels_to_tasks
                    THEN "KeyError:labels_to_tasks"
               ELSE "ok"
    IN  /\ labels' = IF key \in DOMAIN labels THEN DictDel(key, labels) ELSE labels
        /\ IF out = "ok"
           THEN labels_to_tasks' = DictDel(label_name, labels_to_tasks)
           ELSE UNCHANGED labels_to_tasks
        /\ rt' = IF rt.phase = "added" /\ rt.label_name = label_name
                 THEN [rt EXCEPT !.phase = "removed"] @@ [err |-> out]
                 ELSE RtIdle
        /\ last' = [op |-> "remove_label_set", err |-> out, label_name |-> label_name]
        /\ UNCHANGED dvars

\* Payload._retarget_labelset, as the new value of labels_to_tasks.
RetargetLabelset(l2t, label_name, task_name) ==
    IF l2t[label_name] # task_name
    THEN [l2t EXCEPT ![label_name] = task_name]
    ELSE l2t

\* RemapOne with default_none ignored: every label set without an override
\* is retargeted to None.
RemapOne_AlwaysNone(l2t, label_name, m, default_none) ==
    IF label_name \in DOMAIN m
    THEN RetargetLabelset(l2t, label_name, m[label_name])
    ELSE RetargetLabelset(l2t, label_name, None)

\* The body of the loop of remap_labelsets for one label_name.
RemapOne(l2t, label_name, m, default_none) ==
    IF label_name \in DOMAIN m
    THEN RetargetLabelset(l2t, label_name, m[label_name])
    ELSE IF default_none
         THEN RetargetLabelset(l2t, label_name, None)
         ELSE l2t

\* The loop of remap_labelsets over the keys still to visit.
RECURSIVE RemapLoop(_, _, _, _)
RemapLoop(l2t, todo, m, default_none) ==
    IF todo = {} THEN l2t
    ELSE LET label_name == CHOOSE x \in todo : TRUE
         IN  RemapLoop(RemapOne(l2t, label_name, m, default_none),
                       todo \ {label_name}, m, default_none)

\* Mappings a caller can hand to remap_labelsets.
RemapArgs ==
    UNION {[D -> RemapTasks] :
           D \in {S \in SUBSET Names : Cardinality(S) <= MaxRemapKeys}}

RemapLabelsets(m, default_none) ==
    /\ labels_to_tasks' = RemapLoop(labels_to_tasks, DOMAIN labels_to_tasks,
                                    m, default_none)
    /\ last' = [op |-> "remap_labelsets", err |-> "ok", m |-> m,
                default_none |-> default_none]
    /\ rt' = RtIdle
    /\ UNCHANGED labels
    /\ UNCHANGED dvars


(***************************************************************************)
(* Search driver: inputs                                                   *)
(***************************************************************************)
\* Most candidates the tuner's generator yields in one run.
MaxTrials == 2
\* Parameter names the config file may use, in the order dicts list them.
KeyOrder == <<"lr", "bs", "device">>
SearchKeys == {"lr", "device"}
FixedKeys == {"lr", "bs", "device"}
\* Paths launch() returns and values of the metric in a metrics file.
Paths == {"run1", "run2"}
MetricVals == {-1, 0, 2}

\* Optional values whose present case is not a string: Python's None, or x.
NoneVal == <<>>
Some(x) == <<x>>

\* Python values of a configuration: an int, a dict, a str.
IntVal(n) == [kind |-> "int", n |-> n, s |-> ""]
DictVal == [kind |-> "dict", n |-> 1, s |-> ""]
StrVal(s) == [kind |-> "str", n |-> 0, s |-> s]
FixedVals == {IntVal(32), DictVal}

\* str(n) for the ints in use.
IntStr(n) ==
    IF n = 32 THEN "32"
    ELSE <<"0", "1", "2", "3", "4", "5", "6", "7", "8", "9">>[n + 1]

\* str(v), line 41.
Str(v) ==
    CASE v.kind = "int" -> IntStr(v.n)
      [] v.kind = "dict" -> "{'a': 1}"
      [] v.kind = "str" -> v.s

\* json.dumps(v) of a dict, line 40.
JsonDumps(v) == "{\"a\": 1}"

\* f"--{k}", line 41.
Flag(k) ==
    CASE k = "lr" -> "--lr"
      [] k = "bs" -> "--bs"
      [] k = "device" -> "--device"

\* str(search_conf), line 51.
StrConf(conf) == [str_of |-> conf]

\* An insertion-ordered dict is a sequence of items [k, v].
ODKeys(d) == {d[i].k : i \in DOMAIN d}
ODSet(d, k, v) ==
    IF k \in ODKeys(d)
    THEN [i \in DOMAIN d |-> IF d[i].k = k THEN [k |-> k, v |-> v] ELSE d[i]]
    ELSE Append(d, [k |-> k, v |-> v])

\* dict.update(f) with the keys of f taken in the order of `order`.
RECURSIVE ODUpdate(_, _, _)
ODUpdate(d, f, order) ==
    IF order = <<>> THEN d
    ELSE LET k == Head(order)
         IN  ODUpdate(IF k \in DOMAIN f THEN ODSet(d, k, f[k]) ELSE d, f, Tail(order))

\* The command lines and config files tried.  max_search = 0 stands for an
\* omitted --max_search; search_metric_mode only matters with a search_metric.
FixedArgsSet == UNION {[D -> FixedVals] : D \in SUBSET FixedKeys}
GoodArgs ==
    {a \in [config_ok : {TRUE}, search_space : SUBSET SearchKeys,
            fixed_args : FixedArgsSet, device : {None, "cuda"},
            search_metric : {None, "A"}, search_metric_mode : {"max", "min"},
            max_search : 0..MaxTrials] :
        a.search_metric = None => a.search_metric_mode = "max"}
\* A config file without "search_space" or "fixed_args".
BadArgs ==
    [config_ok |-> FALSE, search_space |-> {}, fixed_args |-> EmptyDict,
     device |-> None, search_metric |-> None, search_metric_mode |-> "max",
     max_search |-> 0]

\* The n-th config dict yielded by tuner.config_generator: one value per
\* key of search_space.
Candidate(search_space, n) == [k \in search_space |-> IntVal(n)]

\* Whether the generator can yield an (n+1)-th config.
CanYield(n, max_search) ==
    /\ n < MaxTrials
    /\ max_search = 0 \/ n < max_search

(***************************************************************************)
(* Search driver: main(args)                                               *)
(***************************************************************************)
\* Line 30: any([k in full_conf for k in fixed_args.keys()]).
Overlap(conf, fixed_args) == \E k \in DOMAIN fixed_args : k \in DOMAIN conf

\* FullConf without full_conf.update(fixed_args).
FullConf_NoFixed(conf, fixed_args, device) ==
    LET c0 == ODUpdate(<<>>, conf, KeyOrder)
    IN  IF device # None THEN ODSet(c0, "device", StrVal(device)) ELSE c0

\* Lines 28-34: full_conf.
FullConf(conf, fixed_args, device) ==
    LET c0 == ODUpdate(<<>>, conf, KeyOrder)
        c1 == ODUpdate(c0, fixed_args, KeyOrder)
    IN  IF device # None THEN ODSet(c1, "device", StrVal(device)) ELSE c1

\* Lines 39-41: the value token of one item.
Ser(v) == IF v.kind = "dict" THEN JsonDumps(v) ELSE Str(v)

\* Lines 36-41: arg_list.
RECURSIVE ArgList(_)
ArgList(full_conf) ==
    IF full_conf = <<>> THEN <<>>
    ELSE <<Flag(Head(full_conf).k), Ser(Head(full_conf).v)>> \o ArgList(Tail(full_conf))

\* C2MSet on a dict emptied in every iteration of the loop.
C2MSet_Fresh(c2m, key, metrics) == <<[key |-> key, metrics |-> metrics]>>

\* Line 51: config_to_metrics[(metrics_path, str(search_conf))] = metrics_dict.
C2MSet(c2m, key, metrics) ==
    IF \E i \in DOMAIN c2m : c2m[i].key = key
    THEN [i \in DOMAIN c2m |->
             IF c2m[i].key = key THEN [key |-> key, metrics |-> metrics] ELSE c2m[i]]
    ELSE Append(c2m, [key |-> key, metrics |-> metrics])

\* Line 64: not best_metric.
Falsy(m) == m = NoneVal \/ m[1] = 0

\* Lines 56-57 and 70: metric_cmp(curr_metric, best_metric).
MetricCmp(mode, curr, best) ==
    IF mode = "max" THEN (IF best > curr THEN best ELSE curr)
    ELSE (IF best < curr THEN best ELSE curr)

\* Lines 62-72: the running best after one entry of config_to_metrics.
ScanOne(best, entry, mode) ==
    IF Falsy(best.metric)
    THEN [path_config |-> Some(entry.key), metric |-> Some(entry.metrics)]
    ELSE IF MetricCmp(mode, entry.metrics, best.metric[1]) = entry.metrics
         THEN [path_config |-> Some(entry.key), metric |-> Some(entry.metrics)]
         ELSE best

\* Lines 84-89: the text written to the report file.
ReportText(search_metric, best_pc, best_m, c2m) ==
    [best |-> IF search_metric # None
              THEN Some([path |-> best_pc[1].path, config |-> "{best_config}",
                         metric |-> best_m])
              ELSE NoneVal,
     dump |-> c2m]

\* An exception leaves main: nothing after the raising statement runs.
Raise(e) == pc' = "error" /\ err' = e

\* Lines 18-24.
LoadConfig ==
    /\ pc = "start"
    /\ IF args.config_ok THEN pc' = "loop" /\ err' = err ELSE Raise("AssertionError")
    /\ UNCHANGED <<args, gen, search_conf, arg_list, metrics_path, invocations,
                   config_to_metrics, scan, best_path_config, best_metric, report>>
    /\ UNCHANGED pvars

\* Line 27: the generator yields the next search_conf.
TunerYield ==
    /\ pc = "loop"
    /\ CanYield(Len(gen), args.max_search)
    /\ search_conf' = Candidate(args.search_space, Len(gen) + 1)
    /\ gen' = Append(gen, search_conf')
    /\ pc' = "build"
    /\ UNCHANGED <<args, arg_list, metrics_path, invocations, config_to_metrics,
                   scan, best_path_config, best_metric, report, err>>
    /\ UNCHANGED pvars

\* Lines 28-41.
Build ==
    /\ pc = "build"
    /\ IF Overlap(search_conf, args.fixed_args)
       THEN Raise("ValueError") /\ arg_list' = arg_list
       ELSE /\ arg_list' = ArgList(FullConf(search_conf, args.fixed_args, args.device))
            /\ pc' = "launch"
            /\ err' = err
    /\ UNCHANGED <<args, gen, search_conf, metrics_path, invocations,
                   config_to_metrics, scan, best_path_config, best_metric, report>>
    /\ UNCHANGED pvars

\* Lines 47-49: launch(launch_args) is entered.
LaunchCall ==
    /\ pc = "launch"
    /\ invocations' = Append(invocations,
           [arg_list |-> arg_list, search_conf |-> search_conf,
            path |-> None, metrics |-> NoneVal])
    /\ pc' = "running"
    /\ UNCHANGED <<args, gen, search_conf, arg_list, metrics_path,
                   config_to_metrics, scan, best_path_config, best_metric, report, err>>
    /\ UNCHANGED pvars

\* OnTrialFailure with the failure caught and the loop of line 27 resumed.
OnTrialFailure_Caught == pc' = "loop" /\ err' = "TrialFailure"

\* What a failure inside a trial does to the driver.
OnTrialFailure == Raise("TrialFailure")

\* Line 49: launch returns the path of the metrics file.
LaunchReturn ==
    /\ pc = "running"
    /\ \E path \in Paths :
          /\ metrics_path' = path
          /\ invocations' = [invocations EXCEPT ![Len(invocations)].path = path]
    /\ pc' = "load"
    /\ UNCHANGED <<args, gen, search_conf, arg_list, config_to_metrics, scan,
                   best_path_config, best_metric, report, err>>
    /\ UNCHANGED pvars

\* Line 49: launch raises.
LaunchRaise ==
    /\ pc = "running"
    /\ OnTrialFailure
    /\ UNCHANGED <<args, gen, search_conf, arg_list, metrics_path, invocations,
                   config_to_metrics, scan, best_path_config, best_metric, report>>
    /\ UNCHANGED pvars

\* Lines 50-51: the metrics file is read and recorded.
LoadMetrics ==
    /\ pc = "load"
    /\ \E m \in MetricVals :
          /\ config_to_metrics' =
                 C2MSet(config_to_metrics,
                        [path |-> metrics_path, config |-> StrConf(search_conf)], m)
          /\ invocations' = [invocations EXCEPT ![Len(invocations)].metrics = Some(m)]
    /\ pc' = "loop"
    /\ UNCHANGED <<args, gen, search_conf, arg_list, metrics_path, scan,
                   best_path_config, best_metric, report, err>>
    /\ UNCHANGED pvars

\* Line 50: the metrics file cannot be read.
LoadRaise ==
    /\ pc = "load"
    /\ OnTrialFailure
    /\ UNCHANGED <<args, gen, search_conf, arg_list, metrics_path, invocations,
                   config_to_metrics, scan, best_path_config, best_metric, report>>
    /\ UNCHANGED pvars

\* Line 27 ends the loop; lines 53-57.
TunerExhausted ==
    /\ pc = "loop"
    /\ pc' = "scan"
    /\ best_path_config' = NoneVal
    /\ best_metric' = NoneVal
    /\ scan' = 1
    /\ UNCHANGED <<args, gen, search_conf, arg_list, metrics_path, invocations,
                   config_to_metrics, report, err>>
    /\ UNCHANGED pvars

\* Lines 59-72: one iteration over config_to_metrics.items().
ScanStep ==
    /\ pc = "scan"
    /\ scan <= Len(config_to_metrics)
    /\ LET best == IF args.search_metric # None
                   THEN ScanOne([path_config |-> best_path_config, metric |-> best_metric],
                                config_to_metrics[scan], args.search_metric_mode)
                   ELSE [path_config |-> best_path_config, metric |-> best_metric]
       IN  /\ best_path_config' = best.path_config
           /\ best_metric' = best.metric
    /\ scan' = scan + 1
    /\ UNCHANGED <<pc, args, gen, search_conf, arg_list, metrics_path, invocations,
                   config_to_metrics, report, err>>
    /\ UNCHANGED pvars

\* Lines 74-78: best_path, best_config = best_path_config.
Unpack ==
    /\ pc = "scan"
    /\ scan > Len(config_to_metrics)
    /\ IF best_path_config = NoneVal THEN Raise("TypeError")
       ELSE pc' = "save" /\ err' = err
    /\ UNCHANGED <<args, gen, search_conf, arg_list, metrics_path, invocations,
                   config_to_metrics, scan, best_path_config, best_metric, report>>
    /\ UNCHANGED pvars

\* Lines 81-90.
Save ==
    /\ pc = "save"
    /\ report' = Some(ReportText(args.search_metric, best_path_config, best_metric,
                                 config_to_metrics))
    /\ pc' = "done"
    /\ UNCHANGED <<args, gen, search_conf, arg_list, metrics_path, invocations,
                   config_to_metrics, scan, best_path_config, best_metric, err>>
    /\ UNCHANGED pvars

(***************************************************************************)
(* Specifications                                                          *)
(***************************************************************************)
\* The driver's variables while only the Payload is exercised.
DriverIdle ==
    /\ pc = "idle"
    /\ args = BadArgs
    /\ gen = <<>>
    /\ search_conf = EmptyDict
    /\ arg_list = <<>>
    /\ metrics_path = None
    /\ invocations = <<>>
    /\ config_to_metrics = <<>>
    /\ scan = 0
    /\ best_path_config = NoneVal
    /\ best_metric = NoneVal
    /\ report = NoneVal
    /\ err = None

\* The Payload's variables while only the driver runs.
PayloadIdle ==
    /\ labels = EmptyDict
    /\ labels_to_tasks = EmptyDict
    /\ last = [op |-> "none"]
    /\ rt = RtIdle

InitPayload ==
    /\ \E task_name \in TaskNames : FromTensors(task_name)
    /\ DriverIdle

NextPayload ==
    \/ \E task_name \in TaskNames, label_name \in Names,
          label_list \in LabelListArgs, label_fn \in LabelFnArgs :
          AddLabelSet(task_name, label_name, label_list, label_fn)
    \/ \E label_name \in Names : RemoveLabelSet(label_name)
    \/ \E m \in RemapArgs, default_none \in BOOLEAN : RemapLabelsets(m, default_none)

SpecPayload == InitPayload /\ [][NextPayload]_vars

InitDriver ==
    /\ pc = "start"
    /\ args \in GoodArgs \cup {BadArgs}
    /\ gen = <<>>
    /\ search_conf = EmptyDict
    /\ arg_list = <<>>
    /\ metrics_path = None
    /\ invocations = <<>>
    /\ config_to_metrics = <<>>
    /\ scan = 0
    /\ best_path_config = NoneVal
    /\ best_metric = NoneVal
    /\ report = NoneVal
    /\ err = None
    /\ PayloadIdle

NextDriver ==
    \/ LoadConfig
    \/ TunerYield
    \/ Build
    \/ LaunchCall
    \/ LaunchReturn
    \/ LaunchRaise
    \/ LoadMetrics
    \/ LoadRaise
    \/ TunerExhausted
    \/ ScanStep
    \/ Unpack
    \/ Save

SpecDriver == InitDriver /\ [][NextDriver]_vars


(***************************************************************************)
(* Properties of Payload, checked under SpecPayload                        *)
(***************************************************************************)
\* C1: add_label_set(T, L, ...) with L not yet a label-set name and T not yet
\* a key of the dataset's label mapping, followed at once by
\* remove_label_set(L), completes without error and restores both mappings.
C1_RoundTrip ==
    rt.phase = "removed" =>
        /\ rt.err = "ok"
        /\ labels = rt.labels
        /\ labels_to_tasks = rt.labels_to_tasks

\* C2: every label-set name in labels_to_tasks has the array added for it in
\* the dataset's label mapping, and the dataset's label mapping holds no array
\* of a label set whose name is not in labels_to_tasks.
C2_Lockstep ==
    /\ \A L \in DOMAIN labels_to_tasks : \E k \in DOMAIN labels : labels[k].owner = L
    /\ \A k \in DOMAIN labels : labels[k].owner \in DOMAIN labels_to_tasks

\* C10: a failing add_label_set, and a remove_label_set of a name that is not
\* a key of labels_to_tasks, raise and leave both mappings as they were.
C10_FailureAtomic ==
    [][(\/ last'.op = "add_label_set" /\ last'.err # "ok"
        \/ /\ last'.op = "remove_label_set"
           /\ last'.label_name \notin DOMAIN labels_to_tasks)
       => /\ last'.err # "ok"
          /\ labels' = labels
          /\ labels_to_tasks' = labels_to_tasks]_vars

Terminated == pc \in {"done", "error"}
OverlappingKeys == args.search_space \cap DOMAIN args.fixed_args # {}
MetricsOf(c2m) == {c2m[i].metrics : i \in DOMAIN c2m}
MaxOf(S) == CHOOSE x \in S : \A y \in S : y <= x
MinOf(S) == CHOOSE x \in S : \A y \in S : x <= y
ScanFinished ==
    \/ pc = "scan" /\ scan > Len(config_to_metrics)
    \/ pc \in {"save", "done"}

\* C3: with a search_metric and at least one collected trial, the best metric
\* after the scan is the maximum (mode max) or minimum (mode min) of the
\* collected values, and the best path/config is an entry attaining it.
C3_BestSelection ==
    (ScanFinished /\ args.search_metric # None /\ config_to_metrics # <<>>) =>
        LET want == IF args.search_metric_mode = "max"
                    THEN MaxOf(MetricsOf(config_to_metrics))
                    ELSE MinOf(MetricsOf(config_to_metrics))
        IN  /\ best_metric = Some(want)
            /\ best_path_config # NoneVal
            /\ \E i \in DOMAIN config_to_metrics :
                  /\ config_to_metrics[i].key = best_path_config[1]
                  /\ config_to_metrics[i].metrics = want

\* C4: without --search_metric and with every trial succeeding (at least one
\* ran), the driver selects no best, runs to completion and writes a report
\* holding only the dump of config_to_metrics.
C4_NoMetricCompletes ==
    (/\ Terminated
     /\ invocations # <<>>
     /\ args.config_ok
     /\ ~OverlappingKeys
     /\ args.search_metric = None
     /\ err # "TrialFailure") =>
        /\ pc = "done"
        /\ best_path_config = NoneVal
        /\ report = Some([best |-> NoneVal, dump |-> config_to_metrics])

\* C5: with a key in both search_space and fixed_args the training entrypoint
\* is never invoked and the driver ends with the configuration error,
\* whatever the tuner yields.
C5_OverlapRejected ==
    (args.config_ok /\ OverlappingKeys) =>
        /\ invocations = <<>>
        /\ Terminated => err = "ValueError"

\* The string form of a fixed value: str() of a scalar, the JSON encoding of
\* a mapping.
StringForm(v) == IF v = IntVal(32) THEN "32" ELSE "{\"a\": 1}"
FlagPositions(al, k) == {i \in DOMAIN al : i % 2 = 1 /\ al[i] = Flag(k)}

\* C6: in every invocation's argument list, every key k of fixed_args has its
\* flag --k exactly once, followed by the string form of fixed_args[k].
C6_FixedArgsAlways ==
    \A j \in DOMAIN invocations : \A k \in DOMAIN args.fixed_args :
        LET al == invocations[j].arg_list
        IN  /\ Cardinality(FlagPositions(al, k)) = 1
            /\ \A i \in FlagPositions(al, k) : al[i + 1] = StringForm(args.fixed_args[k])

\* C6 as amended: as above, except that with a --device override the flag
\* --device is followed by the override, not by fixed_args["device"].
C6_FixedArgsUnlessOverridden ==
    \A j \in DOMAIN invocations : \A k \in DOMAIN args.fixed_args :
        LET al == invocations[j].arg_list
        IN  /\ Cardinality(FlagPositions(al, k)) = 1
            /\ \A i \in FlagPositions(al, k) :
                  al[i + 1] = IF k = "device" /\ args.device # None
                              THEN args.device
                              ELSE StringForm(args.fixed_args[k])

\* An invocation with a searched lr, fixed bs and device, and an override.
C6_Witness ==
    /\ invocations # <<>>
    /\ args.search_space = {"lr"}
    /\ DOMAIN args.fixed_args = {"bs", "device"}
    /\ args.fixed_args["bs"] = DictVal
    /\ args.device = "cuda"

Recorded(inv) ==
    \E i \in DOMAIN config_to_metrics :
        config_to_metrics[i].key = [path |-> inv.path, config |-> StrConf(inv.search_conf)]

\* C7: with a valid configuration and no trial failure, the k-th invocation
\* is built from the k-th candidate, a trial starts only after every earlier
\* one has returned and has its metrics recorded, and at the end there is one
\* invocation per candidate.
C7_Sequential ==
    (args.config_ok /\ ~OverlappingKeys /\ err # "TrialFailure") =>
        /\ Len(invocations) <= Len(gen)
        /\ \A k \in DOMAIN invocations :
              /\ invocations[k].search_conf = gen[k]
              /\ invocations[k].arg_list =
                     ArgList(FullConf(gen[k], args.fixed_args, args.device))
              /\ k < Len(invocations) =>
                     /\ invocations[k].metrics # NoneVal
                     /\ Recorded(invocations[k])
              /\ invocations[k].metrics # NoneVal => Recorded(invocations[k])
        /\ pc \in {"loop", "scan", "save", "done"} \/ Terminated =>
              /\ Len(invocations) = Len(gen)
              /\ \A k \in DOMAIN invocations : Recorded(invocations[k])

\* The second trial is running; the first has returned and is recorded.
C7_Witness ==
    /\ pc = "running"
    /\ Len(invocations) = 2
    /\ invocations[1].metrics # NoneVal
    /\ invocations[1].search_conf # invocations[2].search_conf

\* C9: a failing trial ends the driver with that failure: the trial is the
\* last one invoked and is invoked once, no best is selected and no report
\* is written.
C9_TrialFailureAborts ==
    err = "TrialFailure" =>
        /\ pc = "error"
        /\ invocations # <<>>
        /\ Len(invocations) = Len(gen)
        /\ invocations[Len(invocations)].metrics = NoneVal
        /\ scan = 0
        /\ best_path_config = NoneVal
        /\ best_metric = NoneVal
        /\ report = NoneVal

\* The first of two trials failed, with a search_metric to select by.
C9_Witness ==
    /\ err = "TrialFailure"
    /\ Len(invocations) = 1
    /\ args.max_search = 2
    /\ args.search_metric # None

====
